---- MODULE Spec2Model ----
(***************************************************************************)
(* A model of sec-lab-bot.py, the SecLab terminal client: the curses loop  *)
(* of main(), the handlers get_remote_status() and set_status(), and the   *)
(* helpers get_status(), get_state() and api_request().                    *)
(*                                                                         *)
(* Time is counted in ticks of 50 ms, so the 0.1 s debounce window of      *)
(* set_status is 2 ticks and the 120000 ms getch timeout is 2400 ticks.    *)
(* The clock saturates at MaxTime (MaxTime stands for "MaxTime or later"). *)
(***************************************************************************)
EXTENDS Integers, Sequences, FiniteSets, TLC

VARIABLES
    pc,           \* where the single thread is: the call it is about to make
    remote,       \* the label the status API currently holds
    WEBHOOK_URL,  \* module global, read once from the environment
    ch,           \* main: the value win.getch() returned
    banner,       \* main: the value the handler returned (<<>> is None)
    gotchar,      \* main: the debounce timestamp handed to set_status
    screen,       \* what the curses window shows
    now,          \* time.time(), in ticks
    status,       \* get_status(): the value it returned in this cycle
    state,        \* set_status: get_state()'s result
    reqtype,      \* set_status: the label to submit
    statcolor,    \* set_status: the colour to submit, or None
    success,      \* set_status: its success flag (main passes True)
    resp,         \* the response to this cycle's GET
    postResp,     \* the response to this cycle's status POST
    hookResp,     \* the response to this cycle's webhook POST
    entry,        \* the two byte strings getstr() read in this cycle
    truncated,    \* truncate_log()'s result in this cycle
    io,           \* the HTTP requests issued in this cycle, in order
    flashed,      \* curses.flash() and curses.beep() ran in this cycle
    sinceAction,  \* ticks since the last status POST, saturating at DEBOUNCE
    gap,          \* sinceAction as it was when this cycle read the clock
    screen0,      \* what the window showed when this cycle's getch returned
    halt,         \* why the process ended
    exitCode,     \* the process's exit status
    exitLogged,   \* "client exit" was logged
    terminalRestored,  \* curses.wrapper restored the terminal
    logLines      \* the lines of files/client.log, saturating at LogCap

vars == <<pc, remote, WEBHOOK_URL, ch, banner, gotchar, screen, now, status,
          state, reqtype, statcolor, success, resp, postResp, hookResp, entry,
          truncated, io, flashed, sinceAction, gap, screen0, halt, exitCode,
          exitLogged, terminalRestored, logLines>>

(* the variables of one pass through the loop body *)
cycle == <<status, state, reqtype, statcolor, success, resp, postResp,
           hookResp, entry, truncated, io, flashed, gap, screen0>>

(* the variables of the process's end *)
ending == <<halt, exitCode, exitLogged, terminalRestored>>

----------------------------------------------------------------------------
(* Bounds of the model *)

StartTime == 2
MaxTime == 3

(* the main specification counts the log's lines up to LogCap, which stands
   for "LogCap lines or more"; the log specification counts them exactly, up
   to MaxLogLines *)
LogCap == 2
MaxLogLines == 1030

----------------------------------------------------------------------------
(* Constants of the program *)

None == "None"

MAX_LOG_ENTRIES == 1024

STATE_CLOSED == 0
STATE_OPEN == 1

DEBOUNCE == 2
TIMEOUT == 2400

ORD_F == 102
ORD_C == 99
ORD_BAR == 124

PRE_DEF_COLORS ==
    [open |-> "brightgreen", closed |-> "red", fire |-> "orange",
     coffee |-> "8f7369"]

WEBHOOK_MESSAGES ==
    [open |-> <<"Lab is OPEN :)">>, closed |-> <<"Lab is CLOSED :(">>,
     fire |-> <<"Lab is ON FIRE">>, coffee |-> <<"Out for coffee">>]

(* FIGLET.renderText: the rendering of a text, given as its pieces *)
renderText(text) == <<"doh">> \o text

BANNER_OPEN == renderText(<<"Lab is OPEN :)">>)
BANNER_CLOSE == renderText(<<"Lab is CLOSED :(">>)
BANNER_FIRE == renderText(<<"Lab is">>) \o <<"fire.txt">>
BANNER_COFFEE == renderText(<<"Out for">>) \o <<"coffee.txt">>

----------------------------------------------------------------------------
(* What the environment supplies: labels, keys, HTTP responses, typed bytes *)

Labels == {"open", "closed", "fire", "coffee", "party"}

(* an 'x', and the three keys set_status names *)
Keys == {120, ORD_F, ORD_C, ORD_BAR}

EnvWebhook == {None, "", "https://chat.example/hook"}

NoBody == [json |-> FALSE, has_data |-> FALSE, data_obj |-> FALSE,
           has_status |-> FALSE, label |-> ""]

(* the body {"data": {"status": label}} *)
StatusBody(label) ==
    [json |-> TRUE, has_data |-> TRUE, data_obj |-> TRUE,
     has_status |-> TRUE, label |-> label]

(* no response at all: requests raised *)
NoResp == [exc |-> TRUE, status_code |-> 0, body |-> NoBody]

Http(code, body) == [exc |-> FALSE, status_code |-> code, body |-> body]

(* the responses a GET of the status endpoint can meet while the API holds
   `label`: a transport exception, a non-200 answer (with whatever body), and
   200 with a well-formed body, with text that is not JSON, with {} (no
   data), with {"data": [..]} (data no object) and with {"data": {}} *)
GetResponses(label) ==
    { NoResp,
      Http(204, StatusBody(label)),
      Http(500, NoBody),
      Http(200, StatusBody(label)),
      Http(200, NoBody),
      Http(200, [NoBody EXCEPT !.json = TRUE]),
      Http(200, [NoBody EXCEPT !.json = TRUE, !.has_data = TRUE]),
      Http(200, [StatusBody(label) EXCEPT !.has_status = FALSE, !.label = ""]) }

PostResponses == {NoResp, Http(200, NoBody), Http(204, NoBody), Http(500, NoBody)}

(* the bytes win.getstr() can return for the label: nothing, "party", and a
   byte that starts no UTF-8 sequence *)
LabelInputs == {<<>>, <<112, 97, 114, 116, 121>>, <<255>>}

(* and for the colour: nothing, "blue", and a cut two-byte sequence *)
ColorInputs == {<<>>, <<98, 108, 117, 101>>, <<195>>}

----------------------------------------------------------------------------
(* bytes.decode('utf-8') and str.upper() *)

(* whether bytes.decode('utf-8') succeeds: one-, two- and three-byte
   sequences with their continuation bytes *)
(* a decode that never fails, as with errors='replace' *)
decodable_lenient(bs) == TRUE

RECURSIVE decodable(_)
decodable(bs) ==
    IF bs = <<>> THEN TRUE
    ELSE IF bs[1] < 128 THEN decodable(Tail(bs))
    ELSE IF bs[1] >= 194 /\ bs[1] <= 223
         THEN /\ Len(bs) >= 2
              /\ bs[2] >= 128 /\ bs[2] <= 191
              /\ decodable(SubSeq(bs, 3, Len(bs)))
    ELSE IF bs[1] >= 224 /\ bs[1] <= 239
         THEN /\ Len(bs) >= 3
              /\ bs[2] >= 128 /\ bs[2] <= 191
              /\ bs[3] >= 128 /\ bs[3] <= 191
              /\ decodable(SubSeq(bs, 4, Len(bs)))
    ELSE FALSE

(* the text of a decodable byte string of the inputs above *)
decode(bs) ==
    CASE bs = <<>> -> ""
      [] bs = <<112, 97, 114, 116, 121>> -> "party"
      [] bs = <<98, 108, 117, 101>> -> "blue"
      [] OTHER -> "?"

upper(s) ==
    CASE s = "open" -> "OPEN"
      [] s = "closed" -> "CLOSED"
      [] s = "fire" -> "FIRE"
      [] s = "coffee" -> "COFFEE"
      [] s = "party" -> "PARTY"
      [] s = "error" -> "ERROR"
      [] OTHER -> s

----------------------------------------------------------------------------
(* get_status, get_state, get_remote_status *)

Returned(v) == [raised |-> FALSE, value |-> v, exception |-> ""]
Raised(e) == [raised |-> TRUE, value |-> "", exception |-> e]

(* get_status() without its test of resp.status_code *)
get_status_unchecked(r) ==
    IF r.exc THEN Returned("error")
    ELSE IF ~r.body.json THEN Raised("JSONDecodeError")
    ELSE IF ~r.body.has_data THEN Raised("AttributeError")
    ELSE IF ~r.body.data_obj THEN Raised("AttributeError")
    ELSE IF r.body.has_status THEN Returned(r.body.label)
    ELSE Returned("error")

(* get_status() on the response r to its GET: the value it returns, or that
   it raised.  resp.json() raises on text that is not JSON; .get("data",
   "error") yields the str "error" when data is missing, and a str (like any
   data that is no object) has no .get, so the second .get raises *)
get_status(r) ==
    IF r.exc THEN Returned("error")
    ELSE IF r.status_code # 200 THEN Returned("error")
    ELSE IF ~r.body.json THEN Raised("JSONDecodeError")
    ELSE IF ~r.body.has_data THEN Raised("AttributeError")
    ELSE IF ~r.body.data_obj THEN Raised("AttributeError")
    ELSE IF r.body.has_status THEN Returned(r.body.label)
    ELSE Returned("error")

(* get_state() with its two results exchanged *)
get_state_inverted(s) == IF s = "open" THEN STATE_CLOSED ELSE STATE_OPEN

(* get_state() on the status get_status() returned *)
get_state(s) == IF s = "open" THEN STATE_OPEN ELSE STATE_CLOSED

(* get_remote_status() on the status get_status() returned *)
get_remote_status(s) ==
    IF s = "open" THEN BANNER_OPEN
    ELSE IF s = "closed" THEN BANNER_CLOSE
    ELSE IF s = "coffee" THEN BANNER_COFFEE
    ELSE IF s = "fire" THEN BANNER_FIRE
    ELSE renderText(<<"Lab is ", upper(s)>>)

----------------------------------------------------------------------------
(* set_status: its conditions, and api_request's *)

(* time.time() - gotchar < 0.1 *)
debounced(t, g) == t - g < DEBOUNCE

(* the if/elif chain with "open" in its last branch too *)
branch_always_open(c, st) ==
    IF c = ORD_F /\ st = STATE_OPEN THEN "fire"
    ELSE IF c = ORD_C /\ st = STATE_OPEN THEN "coffee"
    ELSE IF c = ORD_BAR /\ st = STATE_OPEN THEN "|"
    ELSE "open"

(* the chain with the keys tested alone, without `state == STATE_OPEN` *)
branch_keys_first(c, st) ==
    IF c = ORD_F THEN "fire"
    ELSE IF c = ORD_C THEN "coffee"
    ELSE IF c = ORD_BAR THEN "|"
    ELSE IF st = STATE_CLOSED THEN "open"
    ELSE "closed"

(* the branch of set_status's if/elif chain that key c takes in state st *)
branch(c, st) ==
    IF c = ORD_F /\ st = STATE_OPEN THEN "fire"
    ELSE IF c = ORD_C /\ st = STATE_OPEN THEN "coffee"
    ELSE IF c = ORD_BAR /\ st = STATE_OPEN THEN "|"
    ELSE IF st = STATE_CLOSED THEN "open"
    ELSE "closed"

(* the fire branch returning the coffee branch's banner *)
success_banner_pasted(b, label) ==
    CASE b = "fire" -> BANNER_COFFEE
      [] b = "coffee" -> BANNER_COFFEE
      [] b = "|" -> renderText(<<"Lab is ", upper(label)>>)
      [] b = "open" -> BANNER_OPEN
      [] OTHER -> BANNER_CLOSE

(* the banner set_status returns when the submission of branch b succeeded *)
success_banner(b, label) ==
    CASE b = "fire" -> BANNER_FIRE
      [] b = "coffee" -> BANNER_COFFEE
      [] b = "|" -> renderText(<<"Lab is ", upper(label)>>)
      [] b = "open" -> BANNER_OPEN
      [] OTHER -> BANNER_CLOSE

(* the default colour without the look-up in PRE_DEF_COLORS *)
StatusColor_no_table(label, color) ==
    IF color = None THEN "purple" ELSE color

(* api_request: the StatusColor it sends *)
StatusColor(label, color) ==
    IF color = None
    THEN IF label \in DOMAIN PRE_DEF_COLORS THEN PRE_DEF_COLORS[label]
         ELSE "purple"
    ELSE color

(* the status POST judged as the webhook POST is *)
post_ok_2xx(r) == ~r.exc /\ r.status_code \in {200, 204}

(* api_request: the status POST went through *)
post_ok(r) == ~r.exc /\ r.status_code = 200

(* api_request: `if WEBHOOK_URL:` *)
webhook_configured_not_none(url) == url # None

webhook_configured(url) == url # None /\ url # ""

(* api_request: the webhook's text *)
webhook_text(label) ==
    IF label \in DOMAIN WEBHOOK_MESSAGES THEN WEBHOOK_MESSAGES[label]
    ELSE <<"Lab is ", label>>

(* any answer of the webhook taken for delivery *)
webhook_ok_answered(r) == ~r.exc

(* api_request: the webhook POST went through *)
webhook_ok(r) == ~r.exc /\ r.status_code \in {200, 204}

(* set_status, the '|' branch: "Status: " and "Color: " are written over the
   first two lines of whatever the window shows *)
prompts(shown) ==
    IF shown # <<>> /\ shown[1] = "Status: Color: " THEN shown
    ELSE <<"Status: Color: ">> \o shown

(* one HTTP request, as io records it *)
Request(method, url, json) == [method |-> method, url |-> url, json |-> json]

----------------------------------------------------------------------------
(* The process: __main__, main() and the handlers it calls *)

(* a request not sent (yet) in this cycle *)
Unsent == [exc |-> FALSE, status_code |-> -1, body |-> NoBody]

(* the positions inside main's try block *)
InTry == {"get_remote_status", "set_status", "truncate_log", "getstr",
          "api_request", "webhook"}

Min(a, b) == IF a < b THEN a ELSE b

(* the log of n lines after k more calls of logging.info/warning/error *)
logged(n, k) == Min(n + k, LogCap)

(* open(LOG_FILE, 'w+') on a file of n lines: mode 'w+' empties it *)
open_w_plus(n) == 0

(* truncate_log() returning True on a log of n lines: the lines it leaves.
   It counts the lines of the file as opened, and writes "" if there are
   more than MAX_LOG_ENTRIES *)
truncate_log(n) ==
    IF open_w_plus(n) > MAX_LOG_ENTRIES
    THEN open_w_plus(n)   \* log_file.write(""): nothing is written
    ELSE open_w_plus(n)

(* main() up to its first win.getch(): the locals success = True and
   gotchar = 0, and the help line on the screen *)
Init ==
    /\ pc = "getch"
    /\ remote \in Labels
    /\ WEBHOOK_URL \in EnvWebhook
    /\ ch = 0
    /\ banner = <<>>
    /\ gotchar = 0
    /\ screen = <<"Use any key to toggle, or control-c to quit">>
    /\ now = StartTime
    /\ status = ""
    /\ state = STATE_CLOSED
    /\ reqtype = ""
    /\ statcolor = None
    /\ success = TRUE
    /\ resp = Unsent
    /\ postResp = Unsent
    /\ hookResp = Unsent
    /\ entry = <<>>
    /\ truncated = "unchecked"
    /\ io = <<>>
    /\ flashed = FALSE
    /\ sinceAction = DEBOUNCE
    /\ gap = DEBOUNCE
    /\ screen0 = <<"Use any key to toggle, or control-c to quit">>
    /\ halt = "running"
    /\ exitCode = -1
    /\ exitLogged = FALSE
    /\ terminalRestored = FALSE
    /\ logLines \in 1..LogCap

(* the loop body is over: the handler's locals are gone, and fresh on the
   next call (main passes its own success and gotchar, which it never
   assigns); main's ch and banner are assigned before they are read again *)
EndCycle ==
    /\ ch' = 0
    /\ banner' = <<>>
    /\ status' = ""
    /\ state' = STATE_CLOSED
    /\ reqtype' = ""
    /\ statcolor' = None
    /\ success' = TRUE
    /\ resp' = Unsent
    /\ postResp' = Unsent
    /\ hookResp' = Unsent
    /\ entry' = <<>>
    /\ truncated' = "unchecked"
    /\ io' = <<>>
    /\ flashed' = FALSE
    /\ gap' = DEBOUNCE
    /\ screen0' = screen'

(* win.getch() returns -1: nothing was typed for TIMEOUT ticks *)
Timeout ==
    /\ pc = "getch"
    /\ ch' = -1
    /\ pc' = "get_remote_status"
    /\ now' = Min(now + TIMEOUT, MaxTime)
    /\ sinceAction' = DEBOUNCE
    /\ UNCHANGED <<remote, WEBHOOK_URL, banner, gotchar, screen, cycle,
                   ending, logLines>>

(* win.getch() returns a key *)
KeyPress ==
    /\ pc = "getch"
    /\ \E k \in Keys : ch' = k
    /\ pc' = "set_status"
    /\ UNCHANGED <<remote, WEBHOOK_URL, banner, gotchar, screen, now,
                   cycle, sinceAction, ending, logLines>>

(* an exception e other than KeyboardInterrupt leaves main(), which catches
   nothing else: curses.wrapper restores the terminal and re-raises, and the
   interpreter ends with a traceback and status 1, before sys.exit(0) *)
Uncaught(e) ==
    /\ pc' = "exit"
    /\ halt' = e
    /\ exitCode' = 1
    /\ exitLogged' = FALSE
    /\ terminalRestored' = TRUE

(* the handler returns b to main: banner = b, then `if banner:` *)
Return(b) ==
    /\ banner' = b
    /\ pc' = "ncurses_write"

(* get_remote_status(): get_status()'s GET, then the banner of its result *)
GetRemoteStatus ==
    /\ pc = "get_remote_status"
    /\ \E r \in GetResponses(remote) :
         /\ resp' = r
         /\ io' = Append(io, Request("GET", "API_URL", <<>>))
         /\ logLines' = logged(logLines, 1)
         /\ IF get_status(r).raised
            THEN /\ Uncaught(get_status(r).exception)
                 /\ UNCHANGED <<status, banner>>
            ELSE /\ status' = get_status(r).value
                 /\ Return(get_remote_status(get_status(r).value))
                 /\ UNCHANGED ending
    /\ UNCHANGED <<remote, WEBHOOK_URL, ch, gotchar, screen, now, state,
                   reqtype, statcolor, success, postResp, hookResp, entry,
                   truncated, flashed, sinceAction, gap, screen0>>

(* set_status() calling get_state() again for its log line *)
SetStatus_fetch_twice ==
    /\ pc = "set_status"
    /\ \E r \in GetResponses(remote) :
         /\ resp' = r
         /\ io' = io \o <<Request("GET", "API_URL", <<>>),
                         Request("GET", "API_URL", <<>>)>>
         /\ IF get_status(r).raised
            THEN /\ Uncaught(get_status(r).exception)
                 /\ logLines' = logged(logLines, 1)
                 /\ UNCHANGED <<status, state>>
            ELSE /\ status' = get_status(r).value
                 /\ logLines' = logged(logLines, 2)
                 /\ state' = get_state(get_status(r).value)
                 /\ pc' = "truncate_log"
                 /\ UNCHANGED ending
    /\ UNCHANGED <<remote, WEBHOOK_URL, ch, banner, gotchar, screen, now,
                   reqtype, statcolor, success, postResp, hookResp, entry,
                   truncated, flashed, sinceAction, gap, screen0>>

(* set_status(): state = get_state(), which is get_status()'s GET *)
SetStatus ==
    /\ pc = "set_status"
    /\ \E r \in GetResponses(remote) :
         /\ resp' = r
         /\ io' = Append(io, Request("GET", "API_URL", <<>>))
         /\ IF get_status(r).raised
            THEN /\ Uncaught(get_status(r).exception)
                 /\ logLines' = logged(logLines, 1)
                 /\ UNCHANGED <<status, state>>
            ELSE /\ status' = get_status(r).value
                 /\ logLines' = logged(logLines, 2)
                 /\ state' = get_state(get_status(r).value)
                 /\ pc' = "truncate_log"
                 /\ UNCHANGED ending
    /\ UNCHANGED <<remote, WEBHOOK_URL, ch, banner, gotchar, screen, now,
                   reqtype, statcolor, success, postResp, hookResp, entry,
                   truncated, flashed, sinceAction, gap, screen0>>

(* set_status() going on whatever truncate_log() returned *)
TruncateLog_unchecked ==
    /\ pc = "truncate_log"
    /\ \E ok \in BOOLEAN :
         /\ truncated' = IF ok THEN "ok" ELSE "failed"
         /\ gap' = IF ok THEN sinceAction ELSE gap
         /\ logLines' = IF ok THEN truncate_log(logLines) ELSE logLines
         /\ IF debounced(now, gotchar)
            THEN /\ Return(<<>>)
                 /\ UNCHANGED <<reqtype, statcolor>>
            ELSE IF branch(ch, state) = "|"
            THEN /\ pc' = "getstr"
                 /\ UNCHANGED <<banner, reqtype, statcolor>>
            ELSE /\ reqtype' = branch(ch, state)
                 /\ statcolor' = None
                 /\ pc' = "api_request"
                 /\ UNCHANGED banner
    /\ UNCHANGED <<remote, WEBHOOK_URL, ch, gotchar, screen, now, status,
                   state, success, resp, postResp, hookResp, entry, io,
                   flashed, sinceAction, screen0, ending>>

(* set_status(): `if not truncate_log(): return`, the debounce test, and the
   if/elif chain up to the branch's first call *)
TruncateLog ==
    /\ pc = "truncate_log"
    /\ \E ok \in BOOLEAN :
         /\ truncated' = IF ok THEN "ok" ELSE "failed"
         /\ gap' = IF ok THEN sinceAction ELSE gap
         /\ logLines' = IF ok THEN truncate_log(logLines) ELSE logLines
         /\ IF ~ok \/ debounced(now, gotchar)
            THEN /\ Return(<<>>)
                 /\ UNCHANGED <<reqtype, statcolor>>
            ELSE IF branch(ch, state) = "|"
            THEN /\ pc' = "getstr"
                 /\ UNCHANGED <<banner, reqtype, statcolor>>
            ELSE /\ reqtype' = branch(ch, state)
                 /\ statcolor' = None
                 /\ pc' = "api_request"
                 /\ UNCHANGED banner
    /\ UNCHANGED <<remote, WEBHOOK_URL, ch, gotchar, screen, now, status,
                   state, success, resp, postResp, hookResp, entry, io,
                   flashed, sinceAction, screen0, ending>>

(* set_status(), the '|' branch: the two prompts (win.addstr raises
   curses.error when the text does not fit the window, and nothing here
   catches it), the two getstr() and their decoding *)
GetStr ==
    /\ pc = "getstr"
    /\ \E fits \in BOOLEAN, lb \in LabelInputs, cb \in ColorInputs :
         IF ~fits
         THEN /\ Uncaught("curses.error")
              /\ UNCHANGED <<banner, reqtype, statcolor, entry, screen>>
         ELSE /\ entry' = <<lb, cb>>
              /\ screen' = prompts(screen)
              /\ UNCHANGED ending
              /\ IF ~decodable(cb) \/ ~decodable(lb)
                 THEN /\ Return(<<>>)
                      /\ UNCHANGED <<reqtype, statcolor>>
                 ELSE /\ statcolor' = decode(cb)
                      /\ reqtype' = decode(lb)
                      /\ IF decode(lb) = "" \/ decode(cb) = ""
                         THEN Return(<<>>)
                         ELSE /\ pc' = "api_request"
                              /\ UNCHANGED banner
    /\ UNCHANGED <<remote, WEBHOOK_URL, ch, gotchar, now, status, state,
                   success, resp, postResp, hookResp, truncated, io, flashed,
                   sinceAction, gap, screen0, logLines>>

(* api_request() has returned ok to set_status, the log then having n
   lines: the branch's banner on success; otherwise the fall through to
   flash, beep, the "request failed" warning and the assignment of the local
   gotchar, and None *)
Submitted(ok, n) ==
    /\ success' = ok
    /\ flashed' = ~ok
    /\ logLines' = IF ok THEN n ELSE logged(n, 1)
    /\ Return(IF ok THEN success_banner(branch(ch, state), reqtype)
              ELSE <<>>)

(* api_request(): its "client sent" log line and the status POST; the API
   takes the label on a 200 *)
ApiRequest ==
    /\ pc = "api_request"
    /\ \E r \in PostResponses :
         /\ postResp' = r
         /\ io' = Append(io, Request("POST", "API_URL",
                            <<reqtype, StatusColor(reqtype, statcolor)>>))
         /\ remote' = IF post_ok(r) THEN reqtype ELSE remote
         /\ sinceAction' = 0
         /\ IF post_ok(r) /\ webhook_configured(WEBHOOK_URL)
            THEN /\ pc' = "webhook"
                 /\ logLines' = logged(logLines, 1)
                 /\ UNCHANGED <<banner, success, flashed>>
            ELSE Submitted(post_ok(r), logged(logLines, 1))
    /\ UNCHANGED <<WEBHOOK_URL, ch, gotchar, screen, now, status, state,
                   reqtype, statcolor, resp, hookResp, entry, truncated, gap,
                   screen0, ending>>

(* api_request(): the webhook POST *)
Webhook ==
    /\ pc = "webhook"
    /\ \E r \in PostResponses :
         /\ hookResp' = r
         /\ io' = Append(io, Request("POST", "WEBHOOK_URL",
                            webhook_text(reqtype)))
         /\ Submitted(webhook_ok(r), logLines)
    /\ UNCHANGED <<remote, WEBHOOK_URL, ch, gotchar, screen, now, status,
                   state, reqtype, statcolor, resp, postResp, entry,
                   truncated, sinceAction, gap, screen0, ending>>

(* main(): `if banner: ncurses_write(win, banner)`.  ncurses_write catches
   and logs what win.clear() or win.addstr() raise; the window is then as it
   was (clear raised), blank (addstr raised), or written all the same
   (addstr raised past the last cell) *)
NcursesWrite ==
    /\ pc = "ncurses_write"
    /\ IF banner = <<>>
       THEN UNCHANGED <<screen, logLines>>
       ELSE \E outcome \in {"written", "clear raised", "addstr raised",
                            "addstr raised at the end"} :
              /\ screen' = CASE outcome = "clear raised" -> screen
                             [] outcome = "addstr raised" -> <<>>
                             [] OTHER -> banner
              /\ logLines' = IF outcome = "written" THEN logLines
                             ELSE logged(logLines, 1)
    /\ pc' = "getch"
    /\ EndCycle
    /\ UNCHANGED <<remote, WEBHOOK_URL, gotchar, now, sinceAction, ending>>

(* SIGINT: KeyboardInterrupt is raised where the thread is.  No `except
   Exception` catches it; main's `except KeyboardInterrupt` does when the
   thread is inside the try block: "client exit" is logged, main returns,
   curses.wrapper restores the terminal and sys.exit(0) runs.  Raised at
   win.getch() or in ncurses_write it leaves main(): curses.wrapper restores
   the terminal and the interpreter ends on the uncaught exception, with
   status 1 or, killed by SIGINT, 130: never with 0 *)
Interrupt ==
    /\ pc # "exit"
    /\ pc' = "exit"
    /\ halt' = "KeyboardInterrupt"
    /\ terminalRestored' = TRUE
    /\ IF pc \in InTry
       THEN /\ exitLogged' = TRUE
            /\ exitCode' = 0
            /\ logLines' = logged(logLines, 1)
       ELSE /\ exitLogged' = FALSE
            /\ \E code \in {1, 130} : exitCode' = code
            /\ UNCHANGED logLines
    /\ UNCHANGED <<remote, WEBHOOK_URL, ch, banner, gotchar, screen, now,
                   cycle, sinceAction>>

(* another client of the API changes the lab's status; this client sees it
   at its next GET, so the change is taken between two cycles *)
RemoteChange ==
    /\ pc = "getch"
    /\ \E l \in Labels \ {remote} : remote' = l
    /\ UNCHANGED <<pc, WEBHOOK_URL, ch, banner, gotchar, screen, now, cycle,
                   sinceAction, ending, logLines>>

(* 50 ms pass *)
Tick ==
    /\ pc # "exit"
    /\ now < MaxTime \/ sinceAction < DEBOUNCE
    /\ now' = Min(now + 1, MaxTime)
    /\ sinceAction' = Min(sinceAction + 1, DEBOUNCE)
    /\ UNCHANGED <<pc, remote, WEBHOOK_URL, ch, banner, gotchar, screen,
                   cycle, ending, logLines>>

Next ==
    \/ Timeout
    \/ KeyPress
    \/ GetRemoteStatus
    \/ SetStatus
    \/ TruncateLog
    \/ GetStr
    \/ ApiRequest
    \/ Webhook
    \/ NcursesWrite
    \/ Interrupt
    \/ RemoteChange
    \/ Tick

Spec == Init /\ [][Next]_vars

(* truncate_log() alone, on a log of any length up to MaxLogLines (the file
   is opened for appending and outlives the process): set_status is about to
   call it, 'x' or '|' typed and the status fetched *)
LogInit ==
    /\ pc = "truncate_log"
    /\ remote \in {"open", "closed"}
    /\ WEBHOOK_URL = None
    /\ ch \in {120, ORD_BAR}
    /\ banner = <<>>
    /\ gotchar = 0
    /\ screen = <<"Use any key to toggle, or control-c to quit">>
    /\ now = StartTime
    /\ status = remote
    /\ state = get_state(remote)
    /\ reqtype = ""
    /\ statcolor = None
    /\ success = TRUE
    /\ resp = Http(200, StatusBody(remote))
    /\ postResp = Unsent
    /\ hookResp = Unsent
    /\ entry = <<>>
    /\ truncated = "unchecked"
    /\ io = <<Request("GET", "API_URL", <<>>)>>
    /\ flashed = FALSE
    /\ sinceAction = DEBOUNCE
    /\ gap = DEBOUNCE
    /\ screen0 = <<"Use any key to toggle, or control-c to quit">>
    /\ halt = "running"
    /\ exitCode = -1
    /\ exitLogged = FALSE
    /\ terminalRestored = FALSE
    /\ logLines \in 0..MaxLogLines

LogSpec == LogInit /\ [][TruncateLog]_vars

(* api_request(reqtype, statcolor) alone, called with any label, in
   PRE_DEF_COLORS or not, and with a colour or None *)
ApiInit ==
    /\ pc = "api_request"
    /\ remote \in {"open", "closed"}
    /\ WEBHOOK_URL \in EnvWebhook
    /\ ch = 120
    /\ banner = <<>>
    /\ gotchar = 0
    /\ screen = <<"Use any key to toggle, or control-c to quit">>
    /\ now = StartTime
    /\ status = remote
    /\ state = get_state(remote)
    /\ reqtype \in Labels \cup {"error"}
    /\ statcolor \in {None, "blue", "red"}
    /\ success = TRUE
    /\ resp = Unsent
    /\ postResp = Unsent
    /\ hookResp = Unsent
    /\ entry = <<>>
    /\ truncated = "ok"
    /\ io = <<>>
    /\ flashed = FALSE
    /\ sinceAction = DEBOUNCE
    /\ gap = DEBOUNCE
    /\ screen0 = <<"Use any key to toggle, or control-c to quit">>
    /\ halt = "running"
    /\ exitCode = -1
    /\ exitLogged = FALSE
    /\ terminalRestored = FALSE
    /\ logLines = 0

ApiNext == ApiRequest \/ Webhook

ApiSpec == ApiInit /\ [][ApiNext]_vars

----------------------------------------------------------------------------
(* What the claims speak of *)

(* the labels of the status POSTs of this cycle, in order *)
RECURSIVE PostedFrom(_)
PostedFrom(reqs) ==
    IF reqs = <<>> THEN <<>>
    ELSE IF reqs[1].method = "POST" /\ reqs[1].url = "API_URL"
         THEN <<reqs[1].json[1]>> \o PostedFrom(Tail(reqs))
    ELSE PostedFrom(Tail(reqs))

Posted == PostedFrom(io)

(* the webhook POSTs of this cycle *)
Notified == {i \in 1..Len(io) : io[i].url = "WEBHOOK_URL"}

(* the handler of a keypress has returned to main *)
KeyHandled == pc = "ncurses_write" /\ ch \in Keys

(* a key that is none of 'f', 'c', '|' *)
OtherKeys == Keys \ {102, 99, 124}

(* api_request() was called in this cycle and has returned *)
ApiReturned == pc = "ncurses_write" /\ postResp # Unsent

(* the body has the shape {"data": {"status": <label>}} *)
WellFormed(body) ==
    body.json /\ body.has_data /\ body.data_obj /\ body.has_status

(* get_status() raised in this cycle *)
GetRaised == pc = "exit" /\ halt \in {"JSONDecodeError", "AttributeError"}

(* C1: debounce.  A keypress handled less than 100 ms (2 ticks) after the
   previous status POST sends no status POST and returns no banner, so that
   nothing is redrawn. *)
C1_Debounce ==
    (KeyHandled /\ truncated = "ok" /\ gap < 2)
        => (Posted = <<>> /\ banner = <<>>)

(* C2: a key other than 'f', 'c', '|' with the fetched status "closed":
   the client submits "open" and nothing else, it submits unless the log
   check aborted the cycle, and when the submission succeeded the banner it
   hands to ncurses_write is the open banner. *)
C2_ClosedSubmitsOpen ==
    (KeyHandled /\ ch \in OtherKeys /\ status = "closed")
        => /\ Posted = IF truncated = "ok" THEN <<"open">> ELSE <<>>
           /\ (ApiReturned /\ success) => banner = <<"doh", "Lab is OPEN :)">>

C2_Witness ==
    /\ KeyHandled /\ ch = 120 /\ status = "closed"
    /\ Posted = <<"open">>
    /\ ApiReturned /\ success
    /\ banner = <<"doh", "Lab is OPEN :)">>

(* C3: a key other than 'f', 'c', '|' with the fetched status "open": the
   client submits "closed" and nothing else, it submits unless the log check
   aborted the cycle, and when the submission succeeded the banner it hands
   to ncurses_write is the closed banner. *)
C3_OpenSubmitsClosed ==
    (KeyHandled /\ ch \in OtherKeys /\ status = "open")
        => /\ Posted = IF truncated = "ok" THEN <<"closed">> ELSE <<>>
           /\ (ApiReturned /\ success) => banner = <<"doh", "Lab is CLOSED :(">>

C3_Witness ==
    /\ KeyHandled /\ ch = 120 /\ status = "open"
    /\ Posted = <<"closed">>
    /\ ApiReturned /\ success
    /\ banner = <<"doh", "Lab is CLOSED :(">>

(* C4: key 'f' with the fetched status "open": the client submits "fire",
   never "closed", it submits unless the log check aborted the cycle, and
   when the submission succeeded the banner it hands to ncurses_write, the
   next one drawn, is the fire banner. *)
C4_FireOnOpen ==
    (KeyHandled /\ ch = 102 /\ status = "open")
        => /\ Posted = IF truncated = "ok" THEN <<"fire">> ELSE <<>>
           /\ (ApiReturned /\ success)
                 => banner = <<"doh", "Lab is", "fire.txt">>

C4_Witness ==
    /\ KeyHandled /\ ch = 102 /\ status = "open"
    /\ Posted = <<"fire">>
    /\ ApiReturned /\ success
    /\ banner = <<"doh", "Lab is", "fire.txt">>

(* C5: api_request returns true exactly when the status POST was answered
   200 and, with a webhook URL configured, the webhook POST was answered 200
   or 204; an exception or another status code on either call gives false,
   and no exception leaves api_request. *)
C5_ApiRequestResult ==
    /\ ApiReturned =>
         (success <=>
            /\ ~postResp.exc /\ postResp.status_code = 200
            /\ (WEBHOOK_URL \notin {"None", ""})
                  => (~hookResp.exc /\ hookResp.status_code \in {200, 204}))
    /\ (postResp # Unsent /\ pc = "exit") => halt = "KeyboardInterrupt"

C5_Witness ==
    /\ ApiReturned /\ success
    /\ WEBHOOK_URL \notin {"None", ""}
    /\ postResp.status_code = 200
    /\ hookResp.status_code = 204

(* C6: get_status returns "error" for every response that is not a 200 and
   for every transport exception, without raising, and for a 200 whose body
   carries a label it returns that label. *)
C6_GetStatus ==
    resp # Unsent =>
      /\ (resp.exc \/ resp.status_code # 200)
            => (status = "error" /\ ~GetRaised)
      /\ (~resp.exc /\ resp.status_code = 200 /\ WellFormed(resp.body))
            => (status = resp.body.label /\ ~GetRaised)

C6_Witness ==
    /\ pc = "truncate_log"
    /\ ~resp.exc /\ resp.status_code = 200 /\ WellFormed(resp.body)
    /\ status = "fire"

(* C7: a 200 whose body has not the shape {data: {status: <label>}} makes
   get_status return "error", and it does not raise. *)
C7_MalformedIsError ==
    (resp # Unsent /\ ~resp.exc /\ resp.status_code = 200
        /\ ~WellFormed(resp.body))
        => (status = "error" /\ ~GetRaised)

(* C8: the loop ends on a keyboard interrupt only: whatever the transport,
   protocol, rendering and log errors, the process has not ended unless it
   was interrupted. *)
C8_OnlyInterruptEnds == pc = "exit" => halt = "KeyboardInterrupt"

(* C9: a keyboard interrupt, wherever it arrives, ends the process
   gracefully: the terminal is restored, the exit is logged and the exit
   status is 0. *)
C9_GracefulInterrupt ==
    (pc = "exit" /\ halt = "KeyboardInterrupt")
        => (terminalRestored /\ exitLogged /\ exitCode = 0)

(* C10: a freeform entry whose label or colour is empty or not decodable
   as text sends no status POST and no webhook POST, and no banner is
   returned for ncurses_write to draw. *)
C10_InvalidEntryAborts ==
    (entry # <<>> /\ pc # "exit"
        /\ (entry[1] \in {<<>>, <<255>>} \/ entry[2] \in {<<>>, <<195>>}))
        => /\ pc = "ncurses_write"
           /\ Posted = <<>>
           /\ Notified = {}
           /\ banner = <<>>

C10_Witness ==
    /\ pc = "ncurses_write" /\ ch = 124 /\ status = "open"
    /\ entry = <<<<255>>, <<98, 108, 117, 101>>>>
    /\ io = <<[method |-> "GET", url |-> "API_URL", json |-> <<>>]>>

(* C11: the log truncation check.  A check that succeeds on a log of more
   than 1024 lines leaves an empty log, and on a log of at most 1024 lines it
   leaves the log as it was. *)
C11_TruncateLog ==
    [][(pc = "truncate_log" /\ truncated' = "ok")
          => logLines' = IF logLines > 1024 THEN 0 ELSE logLines]_vars

(* C12: the log truncation check comes in every keypress cycle before any
   status POST, and a check that fails ends the cycle: no status POST, no
   webhook POST, no flash or beep, no banner for ncurses_write to draw, and
   the process goes on (it ends on an interrupt only). *)
C12_LogCheckFirst ==
    /\ (Posted # <<>> \/ pc \in {"getstr", "api_request", "webhook"})
          => truncated = "ok"
    /\ KeyHandled => truncated # "unchecked"
    /\ truncated = "failed"
          => /\ pc \in {"ncurses_write", "exit"}
             /\ Posted = <<>>
             /\ Notified = {}
             /\ ~flashed
             /\ banner = <<>>
             /\ pc = "exit" => halt = "KeyboardInterrupt"

C12_Witness ==
    /\ KeyHandled
    /\ truncated = "failed"
    /\ io = <<[method |-> "GET", url |-> "API_URL", json |-> <<>>]>>
    /\ banner = <<>>

(* C13: a keypress whose submission failed (api_request returned false),
   whatever its branch: the terminal has flashed and beeped, no banner is
   returned, and the window shows what it showed before the keypress. *)
C13_FailureKeepsBanner ==
    (KeyHandled /\ ApiReturned /\ ~success)
        => (flashed /\ banner = <<>> /\ screen = screen0)

(* C14: the window never shows error text, and a timeout refresh whose
   fetch failed returns no banner to replace the one on the window. *)
C14_NoErrorText ==
    /\ \A i \in 1..Len(screen) : screen[i] # "ERROR"
    /\ (pc = "ncurses_write" /\ ch = -1
           /\ (resp.exc \/ resp.status_code # 200))
          => banner = <<>>

(* C15: the colour in the body of the status POST.  Without a colour given,
   a label of the colour table is sent with the table's colour and any other
   label with "purple"; a colour given is sent as it is. *)
C15_StatusColor ==
    \A i \in 1..Len(io) :
        (io[i].method = "POST" /\ io[i].url = "API_URL")
            => io[i].json =
                 <<reqtype,
                   IF statcolor # "None" THEN statcolor
                   ELSE CASE reqtype = "open" -> "brightgreen"
                          [] reqtype = "closed" -> "red"
                          [] reqtype = "fire" -> "orange"
                          [] reqtype = "coffee" -> "8f7369"
                          [] OTHER -> "purple">>

C15_Witness ==
    /\ statcolor = "None"
    /\ io # <<>>
    /\ io[1] = [method |-> "POST", url |-> "API_URL",
                json |-> <<"party", "purple">>]

(* the banner that matches a status: the pre-rendered one of open, closed,
   fire and coffee, and for any other label the rendering of "Lab is" and the
   label in capitals *)
Matching(label) ==
    CASE label = "open" -> <<"doh", "Lab is OPEN :)">>
      [] label = "closed" -> <<"doh", "Lab is CLOSED :(">>
      [] label = "fire" -> <<"doh", "Lab is", "fire.txt">>
      [] label = "coffee" -> <<"doh", "Out for", "coffee.txt">>
      [] label = "party" -> <<"doh", "Lab is ", "PARTY">>
      [] label = "error" -> <<"doh", "Lab is ", "ERROR">>
      [] OTHER -> <<>>

(* C16: on every timeout the client sends one GET and no POST, and, the GET
   answered, it goes on to redraw the banner that matches the status
   fetched: the process does not end there unless it is interrupted. *)
C16_TimeoutRefresh ==
    (ch = -1 /\ resp # Unsent)
        => /\ io = <<[method |-> "GET", url |-> "API_URL", json |-> <<>>]>>
           /\ pc = "exit" => halt = "KeyboardInterrupt"
           /\ pc = "ncurses_write" => banner = Matching(status)

(* C16 in the cycles where get_status returned *)
C16_WhenFetched ==
    (ch = -1 /\ resp # Unsent /\ ~GetRaised)
        => /\ io = <<[method |-> "GET", url |-> "API_URL", json |-> <<>>]>>
           /\ pc \in {"ncurses_write", "exit"}
           /\ status # ""
           /\ pc = "ncurses_write" => banner = Matching(status)

(* C17: a webhook POST is sent only after the status POST of the same
   action was answered 200: never after a failed or skipped status POST, and
   never when no webhook URL is configured (unset or empty). *)
C17_WebhookAfterPost ==
    /\ \A i \in Notified :
         /\ i > 1
         /\ io[i - 1].method = "POST" /\ io[i - 1].url = "API_URL"
         /\ ~postResp.exc /\ postResp.status_code = 200
         /\ WEBHOOK_URL \notin {"None", ""}
         /\ ch # -1
    /\ pc = "webhook"
         => /\ ~postResp.exc /\ postResp.status_code = 200
            /\ WEBHOOK_URL \notin {"None", ""}
    /\ (ApiReturned /\ (postResp.exc \/ postResp.status_code # 200
                          \/ WEBHOOK_URL \in {"None", ""}))
         => Notified = {}
    /\ (pc = "ncurses_write" /\ postResp = Unsent) => Notified = {}

C17_Witness ==
    /\ KeyHandled
    /\ Notified = {3}
    /\ postResp.status_code = 200
    /\ WEBHOOK_URL = "https://chat.example/hook"

(* C18: a key pressed while the fetched status is anything but "open"
   (closed, fire, coffee, a custom label, or the sentinel "error" of a failed
   fetch): whatever the key, 'f', 'c' and '|' included, the client submits
   "open" and nothing else, it submits unless the log check aborted the
   cycle, and it asks for no label and no colour. *)
C18_NotOpenSubmitsOpen ==
    (KeyHandled /\ status \in {"closed", "fire", "coffee", "party", "error"})
        => /\ Posted = IF truncated = "ok" THEN <<"open">> ELSE <<>>
           /\ entry = <<>>
           /\ screen = screen0

C18_Witness ==
    /\ KeyHandled /\ ch = 124 /\ status = "error"
    /\ Posted = <<"open">>
    /\ screen = screen0

(* a keypress whose status POST was answered 200 and whose webhook POST
   failed: no answer, or a code other than 200 and 204 *)
HookFailed ==
    /\ KeyHandled
    /\ ~postResp.exc /\ postResp.status_code = 200
    /\ hookResp # Unsent
    /\ hookResp.exc \/ hookResp.status_code \notin {200, 204}

Kind(req) ==
    CASE req.method = "GET" /\ req.url = "API_URL" -> "GET"
      [] req.method = "POST" /\ req.url = "API_URL" -> "POST"
      [] req.method = "POST" /\ req.url = "WEBHOOK_URL" -> "webhook"
      [] OTHER -> "other"

(* C20: the requests of a keypress are one GET before anything else, then
   at most one status POST, then at most one webhook POST, in that order;
   never two status POSTs.  The GET is issued as soon as set_status runs. *)
C20_RequestOrder ==
    ch \in {120, 102, 99, 124}
        => /\ Len(io) <= 3
           /\ \A i \in 1..Len(io) : Kind(io[i]) = <<"GET", "POST", "webhook">>[i]
           /\ Len(Posted) <= 1
           /\ pc \in {"truncate_log", "getstr", "api_request", "webhook",
                      "ncurses_write"} => Len(io) >= 1

C20_Witness ==
    /\ KeyHandled
    /\ Len(io) = 3
    /\ Kind(io[1]) = "GET" /\ Kind(io[2]) = "POST" /\ Kind(io[3]) = "webhook"

====
